---- MODULE Spec2Model ----
(***************************************************************************)
(* Model of etl.py: a batch ETL job that reads song (catalog) and log      *)
(* (activity) JSON records and writes five parquet tables: songs, artists, *)
(* users, time and songplays.                                              *)
(*                                                                         *)
(* A DataFrame is modelled as a sequence of rows (records).  The Python    *)
(* build is Python 3: "/" on two ints is true division.  Epoch-millisecond *)
(* values exceed 32 bits, so a ts is kept as two limbs,                    *)
(* ts = hi * 10^6 + lo, and divided limb-wise.                             *)
(***************************************************************************)
EXTENDS Integers, Sequences, FiniteSets, TLC

\* ------------------------------------------------------------------ bounds
MaxSongs == 2
MaxLogs == 2
MaxRuns == 2
NumPartitions == 2

\* ------------------------------------------------------------ input data
NULL == "<null>"

Runs == {1, 2}

Tables == <<"songs", "artists", "users", "time", "songplays">>

TableNames == {Tables[i] : i \in 1..Len(Tables)}

SongRec(sid, title, aid, aname, yr, dur) ==
    [song_id |-> sid, title |-> title, artist_id |-> aid, artist_name |-> aname,
     artist_location |-> NULL, artist_latitude |-> NULL, artist_longitude |-> NULL,
     year |-> yr, duration |-> dur]

LogRec(hi, lo, uid, fn, ln, g, lvl, pg, sng, art, sess) ==
    [ts |-> [hi |-> hi, lo |-> lo], userId |-> uid, firstName |-> fn,
     lastName |-> ln, gender |-> g, level |-> lvl, page |-> pg, song |-> sng,
     artist |-> art, sessionId |-> sess, location |-> "Paris", userAgent |-> "Mozilla"]

\* the JSON files that may lie under song_data/, in path order, one record each
SongFiles ==
    << SongRec("SOA", "Harder", "AR1", "Daft Punk", 2001, 224),
       SongRec("SOB", "Aerodynamic", "AR1", "Daft Punk", 2001, 212),
       SongRec("SOA", "Untitled", "AR3", NULL, 0, 199) >>

\* the JSON records that may lie under log_data/, in path order
LogFiles ==
    << LogRec(1541990, 258796, "26", "Ryan", "Smith", "M", "free", "NextSong", "Harder", "Daft Punk", 583),
       LogRec(1541990, 258123, "26", "Ryan", "Smith", "M", "paid", "NextSong", "Aerodynamic", "Daft Punk", 584),
       LogRec(1541990, 300500, "8", "Kaylee", "Summers", "F", "free", "Home", NULL, "Daft Punk", 139),
       LogRec(1543990, 258000, "8", "Kaylee", "Summers", "F", "free", "NextSong", NULL, NULL, 140),
       LogRec(1541990, 258796, "8", "Kaylee", "Summers", "F", "free", "NextSong", "Tribute", "daft punk", 141) >>

\* the sets of at most n of the files
FilesUpTo(files, n) == {I \in SUBSET (1..Len(files)) : Cardinality(I) <= n}

\* offset of the host's local zone from UTC, in seconds
TZOffsets == {0}

\* ------------------------------------------------- calendar decomposition
\* days since 1970-01-01 -> [year, month, day]
CivilFromDays(days) ==
    LET z == days + 719468
        era == z \div 146097
        doe == z - era * 146097
        yoe == (doe - doe \div 1460 + doe \div 36524 - doe \div 146096) \div 365
        doy == doe - (365 * yoe + yoe \div 4 - yoe \div 100)
        mp == (5 * doy + 2) \div 153
        d == doy - (153 * mp + 2) \div 5 + 1
        m == IF mp < 10 THEN mp + 3 ELSE mp - 9
    IN [year |-> yoe + era * 400 + (IF m <= 2 THEN 1 ELSE 0), month |-> m, day |-> d]

DaysFromCivil(y0, m, d) ==
    LET y == IF m <= 2 THEN y0 - 1 ELSE y0
        era == y \div 400
        yoe == y - era * 400
        doy == (153 * (IF m > 2 THEN m - 3 ELSE m + 9) + 2) \div 5 + d - 1
        doe == yoe * 365 + yoe \div 4 - yoe \div 100 + doy
    IN era * 146097 + doe - 719468

\* datetime.fromtimestamp(sec + ms/1000) in the local zone, then str(): the
\* string "YYYY-MM-DD HH:MM:SS[.ffffff]" is kept as its fields plus the day
\* number the calendar functions need.
FromTimestamp(sec, ms, tzoff) ==
    LET loc == sec + tzoff
        days == loc \div 86400
        sod == loc % 86400
        c == CivilFromDays(days)
    IN [year |-> c.year, month |-> c.month, day |-> c.day,
        hour |-> sod \div 3600, minute |-> (sod % 3600) \div 60, second |-> sod % 60,
        microsecond |-> ms * 1000]

DayNumber(dt) == DaysFromCivil(dt.year, dt.month, dt.day)

\* Spark dayofweek: 1 = Sunday .. 7 = Saturday
DayOfWeek(dt) == ((DayNumber(dt) + 4) % 7) + 1

WeeksInYear(y) ==
    LET P(x) == (x + x \div 4 - x \div 100 + x \div 400) % 7
    IN IF P(y) = 4 \/ P(y - 1) = 3 THEN 53 ELSE 52

\* Spark weekofyear: ISO 8601 week number
WeekOfYear(dt) ==
    LET dn == DayNumber(dt)
        isoWd == ((dn + 3) % 7) + 1
        ord == dn - DaysFromCivil(dt.year, 1, 1) + 1
        w == (ord - isoWd + 10) \div 7
    IN IF w < 1 THEN WeeksInYear(dt.year - 1)
       ELSE IF w > WeeksInYear(dt.year) THEN 1
       ELSE w

\* ------------------------------------------------------ DataFrame helpers
RECURSIVE Str(_)
\* str(n) for n >= 0: the decimal digits, most significant first
Str(n) == IF n < 10 THEN <<n>> ELSE Append(Str(n \div 10), n % 10)

\* mutant: dropDuplicates() is missing
KeepAll(rows) == rows

RECURSIVE DropDuplicates(_)
\* DataFrame.dropDuplicates(): one row kept for every distinct row
DropDuplicates(rows) ==
    IF rows = <<>> THEN <<>>
    ELSE LET n == Len(rows)
             init == DropDuplicates(SubSeq(rows, 1, n - 1))
         IN IF \E i \in 1..(n - 1) : rows[i] = rows[n] THEN init
            ELSE Append(init, rows[n])

\* int(x) / 1000 on the two-limb ts: quotient (whole seconds) and remainder (ms)
TsSeconds(ts) == ts.hi * 1000 + ts.lo \div 1000

TsMillis(ts) == ts.lo % 1000

\* ----------------------------------------------------- process_song_data
\* mutant: the songs projection is followed by dropDuplicates(['song_id'])
SongsTableDedup(df) ==
    LET idx == SelectSeq([i \in 1..Len(df) |-> i],
                         LAMBDA i : \A k \in 1..(i - 1) : df[k].song_id # df[i].song_id)
    IN [i \in 1..Len(idx) |->
          [song_id |-> df[idx[i]].song_id, title |-> df[idx[i]].title,
           artist_id |-> df[idx[i]].artist_id, year |-> df[idx[i]].year,
           duration |-> df[idx[i]].duration]]

SongsTable(df) ==
    [i \in 1..Len(df) |->
        [song_id |-> df[i].song_id, title |-> df[i].title,
         artist_id |-> df[i].artist_id, year |-> df[i].year,
         duration |-> df[i].duration]]

ArtistsTable(df) ==
    [i \in 1..Len(df) |->
        [artist_id |-> df[i].artist_id, artist_name |-> df[i].artist_name,
         artist_location |-> df[i].artist_location,
         artist_latitude |-> df[i].artist_latitude,
         artist_longitude |-> df[i].artist_longitude]]

\* ------------------------------------------------------ process_log_data
\* mutant: the page filter is missing
IsAnyPage(rec) == TRUE

IsSongPlay(rec) == rec.page = "NextSong"

ActionsDf(df) ==
    LET kept == SelectSeq(df, IsSongPlay)
    IN [i \in 1..Len(kept) |->
          [ts |-> kept[i].ts, userId |-> kept[i].userId, level |-> kept[i].level,
           song |-> kept[i].song, artist |-> kept[i].artist,
           sessionId |-> kept[i].sessionId, location |-> kept[i].location,
           userAgent |-> kept[i].userAgent]]

UsersTable(df) ==
    DropDuplicates([i \in 1..Len(df) |->
        [userId |-> df[i].userId, firstName |-> df[i].firstName,
         lastName |-> df[i].lastName, gender |-> df[i].gender,
         level |-> df[i].level]])

\* str(int(int(x)/1000))
GetTimestamp(ts) == Str(TsSeconds(ts))

\* mutant: floor division, datetime.fromtimestamp(int(x) // 1000)
GetDatetimeFloor(ts, tzoff) == FromTimestamp(TsSeconds(ts), 0, tzoff)

\* str(datetime.fromtimestamp(int(x) / 1000)): true division keeps the
\* millisecond fraction
GetDatetime(ts, tzoff) == FromTimestamp(TsSeconds(ts), TsMillis(ts), tzoff)

WithTimestamp(adf) ==
    [i \in 1..Len(adf) |-> ("timestamp" :> GetTimestamp(adf[i].ts)) @@ adf[i]]

WithDatetime(adf, tzoff) ==
    [i \in 1..Len(adf) |-> ("datetime" :> GetDatetime(adf[i].ts, tzoff)) @@ adf[i]]

\* mutant: start_time is taken at whole seconds
TimeRowSeconds(dt, st) ==
    [datetime |-> dt, start_time |-> [st EXCEPT !.microsecond = 0], hour |-> dt.hour,
     day |-> dt.day, week |-> WeekOfYear(dt), month |-> dt.month, year |-> dt.year,
     weekday |-> DayOfWeek(dt)]

TimeRow(dt, st) ==
    [datetime |-> dt, start_time |-> st, hour |-> dt.hour, day |-> dt.day,
     week |-> WeekOfYear(dt), month |-> dt.month, year |-> dt.year,
     weekday |-> DayOfWeek(dt)]

TimeTable(adf) ==
    DropDuplicates([i \in 1..Len(adf) |-> TimeRow(adf[i].datetime, adf[i].datetime)])

Lower(str) == IF str = "Daft Punk" THEN "daft punk" ELSE str

\* mutant: the join compares names without regard to case
JoinCondIgnoreCase(l, s) ==
    l.artist # NULL /\ s.artist_name # NULL /\ Lower(l.artist) = Lower(s.artist_name)

\* col('log_df.artist') == col('song_df.artist_name'): SQL equality, never
\* true when either side is null, byte-wise on strings
JoinCond(l, s) == l.artist # NULL /\ s.artist_name # NULL /\ l.artist = s.artist_name

\* inner join, log-major order; at is the position of the actions row
JoinedDf(adf, sdf) ==
    LET n == Len(sdf)
        all == [k \in 1..(Len(adf) * n) |->
                  [at |-> ((k - 1) \div n) + 1, log |-> adf[((k - 1) \div n) + 1],
                   song |-> sdf[((k - 1) % n) + 1]]]
        Match(p) == JoinCond(p.log, p.song)
    IN SelectSeq(all, Match)

SongplayCols(j) ==
    [start_time |-> j.log.datetime, user_id |-> j.log.userId, level |-> j.log.level,
     song_id |-> j.song.song_id, artist_id |-> j.song.artist_id,
     session_id |-> j.log.sessionId, location |-> j.log.location,
     user_agent |-> j.log.userAgent, year |-> j.log.datetime.year,
     month |-> j.log.datetime.month]

\* mutant: a per-partition counter without the partition prefix
LocalRowNumber(p, k) == [partition |-> 0, seq |-> k]

\* monotonically_increasing_id(): partition index in the upper 31 bits, row
\* number within the partition in the lower 33 bits.  The 64-bit value
\* partition * 2^33 + seq is kept as the pair of its two bit fields.
MonotonicallyIncreasingId(p, k) == [partition |-> p, seq |-> k]

\* numeric order of the 64-bit ids (seq < 2^33)
IdLess(a, b) ==
    a.partition < b.partition \/ (a.partition = b.partition /\ a.seq < b.seq)

\* the joined rows of partition p, each with its columns and its id; a joined
\* row is in the partition of its actions row, part[i] for actions row i
PartitionRows(joined, part, p) ==
    LET rows == SelectSeq(joined, LAMBDA j : part[j.at] = p)
    IN [k \in 1..Len(rows) |->
          ("songplay_id" :> MonotonicallyIncreasingId(p, k - 1)) @@ SongplayCols(rows[k])]

RECURSIVE ConcatPartitions(_, _, _)
ConcatPartitions(joined, part, p) ==
    IF p < 0 THEN <<>>
    ELSE ConcatPartitions(joined, part, p - 1) \o PartitionRows(joined, part, p)

SongplaysTable(adf, sdf, part) ==
    ConcatPartitions(JoinedDf(adf, sdf), part, NumPartitions - 1)

\* ------------------------------------------------------------ the program
VARIABLES tz, input, store, pc, df, actions_df, song_df,
          runs, before, afterDone, written, failedAt, lastWriter

vars == <<tz, input, store, pc, df, actions_df, song_df,
          runs, before, afterDone, written, failedAt, lastWriter>>

\* statements of main -> process_song_data -> process_log_data, in order
Program ==
    <<"read_song", "write_songs", "write_artists", "read_log", "filter",
      "write_users", "timestamp", "datetime", "write_time", "read_song2",
      "write_songplays", "done">>

\* sequential control flow: the statement after p
NextPc(p) == Program[(CHOOSE i \in 1..Len(Program) : Program[i] = p) + 1]

\* mutant: the exception is caught and the run goes on with the next statement
OnFailureContinue(p) == NextPc(p)

\* no try/except anywhere: an exception leaves main and ends the process
OnFailure(p) == "aborted"

\* mutant: mode 'append'
WriteParquetAppend(existing, table) == existing \o table

\* mutant: mode 'ignore'
WriteParquetIgnore(existing, table) == IF existing = <<>> THEN table ELSE existing

\* DataFrameWriter.parquet(path, 'overwrite'): what the path holds afterwards
WriteParquet(existing, table) == table

\* spark.read.json(path): the records of the files present under the path
ReadJson(files, present) ==
    LET idx == SelectSeq([i \in 1..Len(files) |-> i], LAMBDA i : i \in present)
    IN [k \in 1..Len(idx) |-> files[idx[k]]]

\* statements that touch the file system and may raise
CanFail(p) ==
    p \in {"read_song", "write_songs", "write_artists", "read_log",
           "write_users", "write_time", "read_song2", "write_songplays"}

\* the table a write statement targets
TargetOf(p) ==
    CASE p = "write_songs" -> "songs"
      [] p = "write_artists" -> "artists"
      [] p = "write_users" -> "users"
      [] p = "write_time" -> "time"
      [] p = "write_songplays" -> "songplays"
      [] OTHER -> "none"

EmptyStore == [t \in TableNames |-> <<>>]

EmptyInput == [songs |-> {}, logs |-> {}]

AllInputs == [songs : FilesUpTo(SongFiles, MaxSongs), logs : FilesUpTo(LogFiles, MaxLogs)]

\* what an earlier, completed run over some other input left at the output path
OldInput == [songs |-> {2, 3}, logs |-> {2, 4}]

OldStore(tzoff) ==
    LET sdf == ReadJson(SongFiles, OldInput.songs)
        ldf == ReadJson(LogFiles, OldInput.logs)
        adf == WithDatetime(WithTimestamp(ActionsDf(ldf)), tzoff)
    IN [t \in TableNames |->
          CASE t = "songs" -> SongsTable(sdf)
            [] t = "artists" -> ArtistsTable(sdf)
            [] t = "users" -> UsersTable(ldf)
            [] t = "time" -> TimeTable(adf)
            [] OTHER -> SongplaysTable(adf, sdf, [i \in 1..Len(adf) |-> 0])]

\* the different inputs of two runs that overlap in time
ConcInputs == <<[songs |-> {1}, logs |-> {1}], [songs |-> {2}, logs |-> {2}]>>

InitCommon ==
    /\ pc = [r \in Runs |-> "idle"]
    /\ df = [r \in Runs |-> <<>>]
    /\ actions_df = [r \in Runs |-> <<>>]
    /\ song_df = [r \in Runs |-> <<>>]
    /\ runs = 0
    /\ before = [r \in Runs |-> store]
    /\ afterDone = [r \in Runs |-> FALSE]
    /\ written = [r \in Runs |-> <<>>]
    /\ failedAt = [r \in Runs |-> "none"]
    /\ lastWriter = [t \in TableNames |-> 0]

\* one process, started again after it ends, always over the same input; the
\* output path holds what an earlier run over another input left there
Init ==
    /\ tz \in TZOffsets
    /\ \E in \in AllInputs : input = [r \in Runs |-> IF r = 1 THEN in ELSE EmptyInput]
    /\ store = OldStore(tz)
    /\ InitCommon

\* two processes over the same output path
InitConc ==
    /\ tz = 0
    /\ input = [r \in Runs |-> ConcInputs[r]]
    /\ store = EmptyStore
    /\ InitCommon

\* main(), lines 146-152
StartRun(r) ==
    /\ pc[r] \in {"idle", "done", "aborted"}
    /\ runs < MaxRuns
    /\ runs' = runs + 1
    /\ pc' = [pc EXCEPT ![r] = Program[1]]
    /\ df' = [df EXCEPT ![r] = <<>>]
    /\ actions_df' = [actions_df EXCEPT ![r] = <<>>]
    /\ song_df' = [song_df EXCEPT ![r] = <<>>]
    /\ before' = [before EXCEPT ![r] = store]
    /\ afterDone' = [afterDone EXCEPT ![r] = (pc[r] = "done")]
    /\ written' = [written EXCEPT ![r] = <<>>]
    /\ failedAt' = [failedAt EXCEPT ![r] = "none"]
    /\ UNCHANGED <<tz, input, store, lastWriter>>

\* a write statement of run r putting table tab at the output path
DoWrite(r, tab) ==
    LET t == TargetOf(pc[r])
    IN /\ store' = [store EXCEPT ![t] = WriteParquet(store[t], tab)]
       /\ written' = [written EXCEPT ![r] = Append(written[r], t)]
       /\ lastWriter' = [lastWriter EXCEPT ![t] = r]
       /\ pc' = [pc EXCEPT ![r] = NextPc(pc[r])]
       /\ UNCHANGED <<tz, input, runs, before, afterDone, failedAt>>

\* line 42
ReadSongData(r) ==
    /\ pc[r] = "read_song"
    /\ df' = [df EXCEPT ![r] = ReadJson(SongFiles, input[r].songs)]
    /\ pc' = [pc EXCEPT ![r] = NextPc(pc[r])]
    /\ UNCHANGED <<tz, input, store, actions_df, song_df, runs, before, afterDone, written, failedAt, lastWriter>>

\* lines 45-48
WriteSongs(r) ==
    /\ pc[r] = "write_songs"
    /\ DoWrite(r, SongsTable(df[r]))
    /\ UNCHANGED <<df, actions_df, song_df>>

\* lines 52-55
WriteArtists(r) ==
    /\ pc[r] = "write_artists"
    /\ DoWrite(r, ArtistsTable(df[r]))
    /\ UNCHANGED <<df, actions_df, song_df>>

\* line 75
ReadLogData(r) ==
    /\ pc[r] = "read_log"
    /\ df' = [df EXCEPT ![r] = ReadJson(LogFiles, input[r].logs)]
    /\ pc' = [pc EXCEPT ![r] = NextPc(pc[r])]
    /\ UNCHANGED <<tz, input, store, actions_df, song_df, runs, before, afterDone, written, failedAt, lastWriter>>

\* lines 78-80
FilterActions(r) ==
    /\ pc[r] = "filter"
    /\ actions_df' = [actions_df EXCEPT ![r] = ActionsDf(df[r])]
    /\ pc' = [pc EXCEPT ![r] = NextPc(pc[r])]
    /\ UNCHANGED <<tz, input, store, df, song_df, runs, before, afterDone, written, failedAt, lastWriter>>

\* lines 83-87
WriteUsers(r) ==
    /\ pc[r] = "write_users"
    /\ DoWrite(r, UsersTable(df[r]))
    /\ UNCHANGED <<df, actions_df, song_df>>

\* lines 90-91
AddTimestamp(r) ==
    /\ pc[r] = "timestamp"
    /\ actions_df' = [actions_df EXCEPT ![r] = WithTimestamp(actions_df[r])]
    /\ pc' = [pc EXCEPT ![r] = NextPc(pc[r])]
    /\ UNCHANGED <<tz, input, store, df, song_df, runs, before, afterDone, written, failedAt, lastWriter>>

\* lines 94-95
AddDatetime(r) ==
    /\ pc[r] = "datetime"
    /\ actions_df' = [actions_df EXCEPT ![r] = WithDatetime(actions_df[r], tz)]
    /\ pc' = [pc EXCEPT ![r] = NextPc(pc[r])]
    /\ UNCHANGED <<tz, input, store, df, song_df, runs, before, afterDone, written, failedAt, lastWriter>>

\* lines 98-111
WriteTime(r) ==
    /\ pc[r] = "write_time"
    /\ DoWrite(r, TimeTable(actions_df[r]))
    /\ UNCHANGED <<df, actions_df, song_df>>

\* lines 114-115
ReadSongData2(r) ==
    /\ pc[r] = "read_song2"
    /\ song_df' = [song_df EXCEPT ![r] = ReadJson(SongFiles, input[r].songs)]
    /\ pc' = [pc EXCEPT ![r] = NextPc(pc[r])]
    /\ UNCHANGED <<tz, input, store, df, actions_df, runs, before, afterDone, written, failedAt, lastWriter>>

\* lines 118-140; the engine decides which partition each actions row is in
WriteSongplays(r) ==
    /\ pc[r] = "write_songplays"
    /\ \E part \in [1..Len(actions_df[r]) -> 0..(NumPartitions - 1)] :
          DoWrite(r, SongplaysTable(actions_df[r], song_df[r], part))
    /\ UNCHANGED <<df, actions_df, song_df>>

\* a read or write raises.  An overwrite that raises has either not touched
\* the path yet or has already removed what was there.
Fail(r) ==
    /\ CanFail(pc[r])
    /\ failedAt' = [failedAt EXCEPT ![r] = pc[r]]
    /\ pc' = [pc EXCEPT ![r] = OnFailure(pc[r])]
    /\ \/ UNCHANGED <<store, lastWriter>>
       \/ /\ TargetOf(pc[r]) # "none"
          /\ store[TargetOf(pc[r])] # <<>>
          /\ store' = [store EXCEPT ![TargetOf(pc[r])] = <<>>]
          /\ lastWriter' = [lastWriter EXCEPT ![TargetOf(pc[r])] = 0]
    /\ UNCHANGED <<tz, input, df, actions_df, song_df, runs, before, afterDone, written>>

Step(r) ==
    \/ StartRun(r)
    \/ ReadSongData(r)
    \/ WriteSongs(r)
    \/ WriteArtists(r)
    \/ ReadLogData(r)
    \/ FilterActions(r)
    \/ WriteUsers(r)
    \/ AddTimestamp(r)
    \/ AddDatetime(r)
    \/ WriteTime(r)
    \/ ReadSongData2(r)
    \/ WriteSongplays(r)
    \/ Fail(r)

Next == Step(1)

NextConc == \E r \in Runs : Step(r)

Spec == Init /\ [][Next]_vars

SpecConc == InitConc /\ [][NextConc]_vars

\* ------------------------------------------------------------ properties
Range(seq) == {seq[i] : i \in 1..Len(seq)}

Count(seq, x) == Cardinality({i \in 1..Len(seq) : seq[i] = x})

SameBag(a, b) ==
    /\ Len(a) = Len(b)
    /\ \A x \in Range(a) \cup Range(b) : Count(a, x) = Count(b, x)

StripId(rows) ==
    [i \in 1..Len(rows) |-> [f \in DOMAIN rows[i] \ {"songplay_id"} |-> rows[i][f]]]

\* run r has written table t since it was last started
Wrote(r, t) == \E k \in 1..Len(written[r]) : written[r][k] = t

\* the catalog and activity records run r reads
Catalog(r) == ReadJson(SongFiles, input[r].songs)

Activity(r) == ReadJson(LogFiles, input[r].logs)

\* the actions rows run r derives from its log input
DerivedActions(r) == WithDatetime(WithTimestamp(ActionsDf(Activity(r))), tz)

\* the dimension table t that a run over run r's input produces
OutputOf(r, t) ==
    CASE t = "songs" -> SongsTable(Catalog(r))
      [] t = "artists" -> ArtistsTable(Catalog(r))
      [] t = "users" -> UsersTable(Activity(r))
      [] t = "time" -> TimeTable(DerivedActions(r))
      [] OTHER -> LET j == JoinedDf(DerivedActions(r), Catalog(r))
                  IN [i \in 1..Len(j) |-> SongplayCols(j[i])]

\* table t at the output path is what a run over run r's input produces
\* (songplays: up to row order and the surrogate ids)
HoldsOutputOf(r, t) ==
    IF t = "songplays" THEN SameBag(StripId(store[t]), OutputOf(r, t))
    ELSE store[t] = OutputOf(r, t)

\* (song-play event, catalog record) pairs whose artist names are the same
\* string, as positions in the activity records and the catalog records
MatchingPairs(logs, cat) ==
    {p \in (1..Len(logs)) \X (1..Len(cat)) :
        /\ logs[p[1]].page = "NextSong"
        /\ logs[p[1]].artist # NULL
        /\ logs[p[1]].artist = cat[p[2]].artist_name}

PairKey(logs, cat, p) ==
    [session_id |-> logs[p[1]].sessionId, song_id |-> cat[p[2]].song_id,
     artist_id |-> cat[p[2]].artist_id]

FactKey(f) == [session_id |-> f.session_id, song_id |-> f.song_id, artist_id |-> f.artist_id]

\* C1: after the songplays write, the fact table has exactly one row per
\* (NextSong event, catalog record) pair with equal artist name, carrying the
\* event's session_id and the record's song_id and artist_id; nothing else.
C1_JoinExact ==
    Wrote(1, "songplays") =>
        LET logs == Activity(1)
            cat == Catalog(1)
            pairs == MatchingPairs(logs, cat)
            keys == [k \in 1..Len(store.songplays) |-> FactKey(store.songplays[k])]
        IN /\ Len(store.songplays) = Cardinality(pairs)
           /\ \A p \in pairs :
                 Count(keys, PairKey(logs, cat, p))
                   = Cardinality({q \in pairs : PairKey(logs, cat, q) = PairKey(logs, cat, p)})

C1_Witness ==
    /\ pc[1] = "done"
    /\ Len(store.songplays) >= 1
    /\ LET logs == Activity(1)
           cat == Catalog(1)
           pairs == MatchingPairs(logs, cat)
       IN /\ \E i \in 1..Len(logs) :
                logs[i].page = "NextSong" /\ \A p \in pairs : p[1] # i
          /\ \E j \in 1..Len(cat) : \A p \in pairs : p[2] # j

UserTuple(rec) ==
    [userId |-> rec.userId, firstName |-> rec.firstName, lastName |-> rec.lastName,
     gender |-> rec.gender, level |-> rec.level]

\* C2: a record whose page is not NextSong is the source of no time row and
\* of no songplays row, but its user tuple is a users row.
C2_FilterCorrect ==
    LET logs == Activity(1)
        plays == {i \in 1..Len(logs) : logs[i].page = "NextSong"}
    IN /\ Wrote(1, "time") =>
             LET times == {GetDatetime(logs[i].ts, tz) : i \in plays}
             IN \A k \in 1..Len(store.time) : store.time[k].start_time \in times
       /\ Wrote(1, "songplays") =>
             LET sessions == {logs[i].sessionId : i \in plays}
             IN \A k \in 1..Len(store.songplays) : store.songplays[k].session_id \in sessions
       /\ Wrote(1, "users") =>
             \A i \in (1..Len(logs)) \ plays :
                 \E k \in 1..Len(store.users) : store.users[k] = UserTuple(logs[i])

C2_Witness ==
    /\ pc[1] = "done"
    /\ LET logs == Activity(1)
           cat == Catalog(1)
       IN \E i \in 1..Len(logs) :
             /\ logs[i].page # "NextSong"
             /\ \E j \in 1..Len(cat) : logs[i].artist = cat[j].artist_name
             /\ \A k \in 1..Len(store.songplays) :
                   store.songplays[k].session_id # logs[i].sessionId
             /\ \E k \in 1..Len(store.users) : store.users[k].userId = logs[i].userId

SongIds(cat) == {cat[i].song_id : i \in 1..Len(cat)}

\* C3 as stated: one songs row per distinct song_id of the catalog
C3_OneRowPerSongId ==
    Wrote(1, "songs") =>
        \A sid \in SongIds(Catalog(1)) :
            Cardinality({k \in 1..Len(store.songs) : store.songs[k].song_id = sid}) = 1

\* C3 amended: the songs table has one row per catalog record, fields copied
\* verbatim, so one row per distinct song_id exactly when no two catalog
\* records share a song_id.
C3_OneRowPerRecord ==
    Wrote(1, "songs") =>
        LET cat == Catalog(1)
        IN /\ Len(store.songs) = Len(cat)
           /\ \A i \in 1..Len(cat) :
                 /\ store.songs[i].song_id = cat[i].song_id
                 /\ store.songs[i].title = cat[i].title
                 /\ store.songs[i].artist_id = cat[i].artist_id
                 /\ store.songs[i].year = cat[i].year
                 /\ store.songs[i].duration = cat[i].duration
           /\ (Cardinality(SongIds(cat)) = Len(cat)) <=>
                 \A sid \in SongIds(cat) :
                     Cardinality({k \in 1..Len(store.songs) : store.songs[k].song_id = sid}) = 1

C3_Witness ==
    /\ pc[1] = "done"
    /\ Len(store.songs) = 2
    /\ store.songs[1].song_id = store.songs[2].song_id
    /\ store.songs[1].title # store.songs[2].title

HasDatetime(row) == "datetime" \in DOMAIN row

SameClock(a, b) ==
    /\ a.year = b.year /\ a.month = b.month /\ a.day = b.day
    /\ a.hour = b.hour /\ a.minute = b.minute /\ a.second = b.second

DimTables == {"songs", "artists", "users", "time"}

\* C5: after a completed run the four dimension tables are what this run's
\* input gives, whatever the path held before, and a second run over the same
\* input leaves them as the first run did.
C5_OverwriteIdempotent ==
    pc[1] = "done" =>
        \A t \in DimTables :
            /\ store[t] = OutputOf(1, t)
            /\ afterDone[1] => store[t] = before[1][t]

C5_Witness ==
    /\ pc[1] = "done"
    /\ afterDone[1]
    /\ runs = 2
    /\ \A t \in DimTables : Len(store[t]) >= 1

IsPrefix(a, b) == Len(a) <= Len(b) /\ \A i \in 1..Len(a) : a[i] = b[i]

C7_IdsIncreasing ==
    \A i, j \in 1..Len(store.songplays) :
        i < j => IdLess(store.songplays[i].songplay_id, store.songplays[j].songplay_id)

C7_Witness ==
    /\ pc[1] = "done"
    /\ Len(store.songplays) >= 3
    /\ \E i, j \in 1..Len(store.songplays) :
          store.songplays[i].songplay_id.partition # store.songplays[j].songplay_id.partition
    /\ \E i, j \in 1..Len(store.songplays) :
          /\ i # j
          /\ store.songplays[i].songplay_id.partition = store.songplays[j].songplay_id.partition

\* C8: with two runs over one output path every table holds the output of
\* the run that wrote it last, and once both runs are done every table has
\* been written by one of them.
C8_LastWriterWins ==
    /\ \A t \in TableNames : lastWriter[t] # 0 => HoldsOutputOf(lastWriter[t], t)
    /\ (pc[1] = "done" /\ pc[2] = "done") => \A t \in TableNames : lastWriter[t] # 0

C8_Witness ==
    /\ pc[1] = "done"
    /\ pc[2] = "done"
    /\ input[1] # input[2]
    /\ lastWriter["songs"] = 1
    /\ lastWriter["songplays"] = 2
    /\ store.songs = SongsTable(Catalog(1))
    /\ store.songs # SongsTable(Catalog(2))
    /\ ~HoldsOutputOf(1, "songplays")

\* C9: the users table has no two equal rows and has a row for every
\* distinct (userId, firstName, lastName, gender, level) of the log input.
C9_UsersDistinct ==
    Wrote(1, "users") =>
        LET logs == Activity(1)
        IN /\ \A i, j \in 1..Len(store.users) : i # j => store.users[i] # store.users[j]
           /\ Range(store.users) = {UserTuple(logs[i]) : i \in 1..Len(logs)}

C9_Witness ==
    /\ pc[1] = "done"
    /\ Len(store.users) = 2
    /\ store.users[1].userId = store.users[2].userId
    /\ store.users[1].level # store.users[2].level

\* C10: after a completed run every songplays row has a time row with its
\* start_time (and that row's year and month), a users row with its user_id,
\* a songs row with its song_id and an artists row with its artist_id.
C10_FactResolves ==
    pc[1] = "done" =>
        \A k \in 1..Len(store.songplays) :
            LET f == store.songplays[k]
            IN /\ \E i \in 1..Len(store.time) : store.time[i].start_time = f.start_time
               /\ \A i \in 1..Len(store.time) :
                     store.time[i].start_time = f.start_time =>
                        (store.time[i].year = f.year /\ store.time[i].month = f.month)
               /\ \E i \in 1..Len(store.users) : store.users[i].userId = f.user_id
               /\ \E i \in 1..Len(store.songs) : store.songs[i].song_id = f.song_id
               /\ \E i \in 1..Len(store.artists) : store.artists[i].artist_id = f.artist_id

C10_Witness ==
    /\ pc[1] = "done"
    /\ Len(store.songplays) >= 2
    /\ store.songplays[1].start_time.microsecond # 0
    /\ store.songplays[1].start_time # store.songplays[2].start_time

====
